---------------------------- MODULE Spec2Model ----------------------------
(***************************************************************************)
(* A model of the options-PDF calculator (src/options_pdf_calculator.py    *)
(* with src/ai_analysis.py): the Black-Scholes pricer, the Newton-Raphson  *)
(* implied-volatility solver, the Breeden-Litzenberger density extractor   *)
(* and the calculate_pdf pipeline that composes them.                      *)
(*                                                                         *)
(* Numbers.  The program computes in IEEE double precision.  The model     *)
(* computes in fixed point: a finite number x is the integer round(x *     *)
(* Scale).  A value that the program can make non-finite (a division by    *)
(* zero, the square root of a negative number) is a record with a kind:    *)
(* Fin(v), NaN, PInf or NInf, with the IEEE rules for comparison (every    *)
(* comparison with NaN is false) and for numpy's maximum (NaN propagates). *)
(* Thresholds of the program below the model's resolution (1e-6, 1e-10)    *)
(* become one unit of the fixed point, the smallest positive number.       *)
(***************************************************************************)
EXTENDS Integers, Sequences, FiniteSets, TLC

\* Fixed-point resolution: the number of units in 1.0.
Scale == 10000

\* A decimal written in ten-thousandths, in units of the fixed point.
Dec4(n) == (n * Scale + 5000) \div 10000

Abs(x) == IF x < 0 THEN -x ELSE x
Max(a, b) == IF a >= b THEN a ELSE b
Min(a, b) == IF a <= b THEN a ELSE b

\* a / b rounded to the nearest integer, for b > 0.
RDiv(a, b) == (a + b \div 2) \div b

\* Fixed-point product a * b (a split in whole and fraction to stay in range).
FMul(a, b) == (a \div Scale) * b + RDiv((a % Scale) * b, Scale)

\* Fixed-point quotient a / b for b > 0.  A divisor too large for the
\* remainder to be scaled within 32 bits is halved together with the dividend.
RECURSIVE FDivPos(_, _)
FDivPos(a, b) ==
    IF b > 2147483647 \div (2 * Scale) THEN FDivPos(RDiv(a, 2), RDiv(b, 2))
    ELSE (a \div b) * Scale + RDiv((a % b) * Scale, b)

\* Fixed-point quotient a / b, b # 0.
FDiv(a, b) == IF b < 0 THEN FDivPos(-a, -b) ELSE FDivPos(a, b)

\* Integer square root, digit by digit in base 36: the largest s in
\* 0..46340 with s*s <= n.
SqFits(s, n) == s <= 46340 /\ s * s <= n
SqDigit(base, step, n) ==
    CHOOSE d \in 0..35 :
        SqFits(base + d * step, n) /\ (d = 35 \/ ~SqFits(base + (d + 1) * step, n))
ISqrt(n) ==
    LET a == 1296 * SqDigit(0, 1296, n)
        b == a + 36 * SqDigit(a, 36, n)
    IN  b + SqDigit(b, 1, n)

\* np.sqrt on a finite x >= 0, in fixed point.
FSqrt(x) == ISqrt(x * Scale)

\* 2 * atanh(z) by its series, |z| <= 1/3.
AtanhSeries2(z) ==
    LET z2 == FMul(z, z)
        z3 == FMul(z2, z)
        z5 == FMul(z3, z2)
        z7 == FMul(z5, z2)
        z9 == FMul(z7, z2)
    IN  2 * z + RDiv(2 * z3, 3) + RDiv(2 * z5, 5) + RDiv(2 * z7, 7) + RDiv(2 * z9, 9)

\* np.log on a finite x > 0, in fixed point: ln x = ln(x / 2^n) + n ln 2.
RECURSIVE FLn(_)
FLn(x) ==
    IF x > 2 * Scale THEN FLn(RDiv(x, 2)) + Dec4(6931)
    ELSE IF 2 * x < Scale THEN FLn(2 * x) - Dec4(6931)
    ELSE AtanhSeries2(FDiv(x - Scale, x + Scale))

\* e^n for an integer n, in fixed point: e^-10 and less are below the
\* resolution.
RECURSIVE ExpInt(_)
ExpInt(n) ==
    IF n = 0 THEN Scale
    ELSE IF n > 0 THEN FMul(ExpInt(n - 1), Dec4(27183))
    ELSE IF n <= -10 THEN 0
    ELSE FMul(ExpInt(n + 1), Dec4(3679))

\* e^f by its Taylor series, 0 <= f < 1.
ExpFrac(f) ==
    LET t2 == RDiv(FMul(f, f), 2)
        t3 == RDiv(FMul(t2, f), 3)
        t4 == RDiv(FMul(t3, f), 4)
        t5 == RDiv(FMul(t4, f), 5)
        t6 == RDiv(FMul(t5, f), 6)
        t7 == RDiv(FMul(t6, f), 7)
        t8 == RDiv(FMul(t7, f), 8)
    IN  Scale + f + t2 + t3 + t4 + t5 + t6 + t7 + t8

\* np.exp on a finite x, in fixed point.
FExp(x) == FMul(ExpInt(x \div Scale), ExpFrac(x % Scale))

\* The largest |d| the normal density and distribution are evaluated at:
\* beyond it both have their limit values at the model's resolution.
DClamp == 10 * Scale

\* scipy.stats.norm.pdf on a finite d.
NormPdf(d) ==
    LET c == Max(-DClamp, Min(DClamp, d))
    IN  FMul(FExp(-RDiv(FMul(c, c), 2)), Dec4(3989))

\* scipy.stats.norm.cdf on a finite d (Abramowitz-Stegun 26.2.17): the
\* polynomial at t = 1 / (1 + 0.2316 x), the value at x >= 0, and the value
\* at d by symmetry.
NormCdfPoly(t) ==
    LET t2 == FMul(t, t)
        t3 == FMul(t2, t)
        t4 == FMul(t3, t)
        t5 == FMul(t4, t)
    IN  FMul(Dec4(3194), t) - FMul(Dec4(3566), t2) + FMul(Dec4(17815), t3)
            - FMul(Dec4(18213), t4) + FMul(Dec4(13303), t5)
NormCdfUpper(x) ==
    Scale - FMul(NormPdf(x), NormCdfPoly(FDiv(Scale, Scale + FMul(Dec4(2316), x))))
NormCdfMirror(c, up) == IF c >= 0 THEN up ELSE Scale - up
NormCdf(d) ==
    NormCdfMirror(d, NormCdfUpper(Abs(Max(-DClamp, Min(DClamp, d)))))


(***************************************************************************)
(* IEEE values: a finite number, or NaN, +inf, -inf.                       *)
(***************************************************************************)
Fin(v) == [k |-> "fin", v |-> v]
NaN == [k |-> "nan", v |-> 0]
PInf == [k |-> "pinf", v |-> 0]
NInf == [k |-> "ninf", v |-> 0]

IsFin(a) == a.k = "fin"
IsNaN(a) == a.k = "nan"

\* -1, 0 or 1 for a value that is not NaN.
FlSign(a) ==
    IF a.k = "pinf" THEN 1
    ELSE IF a.k = "ninf" THEN -1
    ELSE IF a.v > 0 THEN 1 ELSE IF a.v < 0 THEN -1 ELSE 0

\* a > b, a < b, a <= b on IEEE values: false when either is NaN.
FlGt(a, b) ==
    /\ ~IsNaN(a) /\ ~IsNaN(b)
    /\ \/ IsFin(a) /\ IsFin(b) /\ a.v > b.v
       \/ a.k = "pinf" /\ b.k # "pinf"
       \/ b.k = "ninf" /\ a.k # "ninf"
FlLt(a, b) == FlGt(b, a)
FlLe(a, b) ==
    /\ ~IsNaN(a) /\ ~IsNaN(b)
    /\ ~FlGt(a, b)

FlNeg(a) ==
    IF IsFin(a) THEN Fin(-a.v)
    ELSE IF a.k = "pinf" THEN NInf
    ELSE IF a.k = "ninf" THEN PInf
    ELSE NaN

FlAbs(a) == IF IsFin(a) THEN Fin(Abs(a.v)) ELSE IF IsNaN(a) THEN NaN ELSE PInf

FlAdd(a, b) ==
    IF IsNaN(a) \/ IsNaN(b) THEN NaN
    ELSE IF IsFin(a) /\ IsFin(b) THEN Fin(a.v + b.v)
    ELSE IF IsFin(a) THEN b
    ELSE IF IsFin(b) THEN a
    ELSE IF a.k = b.k THEN a ELSE NaN

FlSub(a, b) == FlAdd(a, FlNeg(b))

FlMul(a, b) ==
    IF IsNaN(a) \/ IsNaN(b) THEN NaN
    ELSE IF IsFin(a) /\ IsFin(b) THEN Fin(FMul(a.v, b.v))
    ELSE IF FlSign(a) * FlSign(b) = 0 THEN NaN
    ELSE IF FlSign(a) * FlSign(b) > 0 THEN PInf ELSE NInf

\* numpy float64 division: x/0 is +-inf, 0/0 is NaN, no exception.
FlDiv(a, b) ==
    IF IsNaN(a) \/ IsNaN(b) THEN NaN
    ELSE IF IsFin(a) /\ IsFin(b) THEN
        IF b.v # 0 THEN Fin(FDiv(a.v, b.v))
        ELSE IF a.v > 0 THEN PInf ELSE IF a.v < 0 THEN NInf ELSE NaN
    ELSE IF IsFin(a) THEN Fin(0)
    ELSE IF ~IsFin(b) THEN NaN
    ELSE IF FlSign(a) * (IF b.v < 0 THEN -1 ELSE 1) > 0 THEN PInf ELSE NInf

\* np.maximum(a, 0): NaN propagates.
FlMax0(a) == IF IsNaN(a) THEN NaN ELSE IF FlGt(a, Fin(0)) THEN a ELSE Fin(0)

(***************************************************************************)
(* black_scholes_call and the vega of implied_volatility.  S, K, T and r   *)
(* are finite (fixed point); sigma and the results are IEEE values.        *)
(***************************************************************************)

\* Line 260 without its test of sigma.
BSDegenerateTimeOnly(T, sigma) == T <= 0

\* The test of line 260: T <= 0 or sigma <= 0.
BSDegenerate(T, sigma) == T <= 0 \/ FlLe(sigma, Fin(0))

\* d1 of lines 262 and 273 for T > 0 and a finite sigma > 0:
\*   (ln(S/K) + (r + sigma^2/2) T) / (sigma sqrt(T)),
\* evaluated as (ln(S/K) + r T) / a + a/2 with a = sigma sqrt(T), which is
\* the same number and stays in range for a large sigma.  An a below the
\* resolution, or one beyond the clamp of NormPdf and NormCdf, gives the
\* limit value.
SigmaSqrtT(sig, T) == FMul(sig, FSqrt(T))
D1From(num, a) ==
    IF a = 0
    THEN (IF num > 0 THEN DClamp ELSE IF num < 0 THEN -DClamp ELSE 0)
    ELSE IF a >= 4 * DClamp THEN DClamp
    ELSE Max(-DClamp, Min(DClamp, FDiv(num, a) + RDiv(a, 2)))
D1(S, K, T, r, sig) == D1From(FLn(FDiv(S, K)) + FMul(r, T), SigmaSqrtT(sig, T))

\* d2 = d1 - sigma sqrt(T) (line 263), from d1 and a = sigma sqrt(T).
D2(d1, a) == IF a >= 4 * DClamp THEN -DClamp ELSE d1 - a

\* Line 264 from d1 and a = sigma sqrt(T).
BSFromD1(S, K, T, r, d1, a) ==
    FMul(S, NormCdf(d1)) - FMul(FMul(K, FExp(-FMul(r, T))), NormCdf(D2(d1, a)))

\* Lines 262-264, the closed form, for T > 0 and a finite sigma > 0.
BSFormula(S, K, T, r, sig) ==
    BSFromD1(S, K, T, r, D1(S, K, T, r, sig), SigmaSqrtT(sig, T))

\* black_scholes_call (lines 258-264).
black_scholes_call(S, K, T, r, sigma) ==
    IF BSDegenerate(T, sigma) THEN Fin(Max(S - K, 0))
    ELSE IF IsFin(sigma) THEN Fin(BSFormula(S, K, T, r, sigma.v))
    ELSE NaN

\* Line 273: vega = S * norm.pdf(d1) * sqrt(T), computed with no guard on T.
\* T < 0: sqrt(T) is NaN.  T = 0: d1 is x/0, so norm.pdf(d1) is 0 (x # 0) or
\* NaN (x = 0, which is S = K).
Vega(S, K, T, r, sigma) ==
    IF IsNaN(sigma) \/ T < 0 THEN NaN
    ELSE IF ~IsFin(sigma) THEN Fin(0)
    ELSE IF T = 0 THEN (IF S = K \/ sigma.v = 0 THEN NaN ELSE Fin(0))
    ELSE IF sigma.v = 0 THEN (IF FLn(FDiv(S, K)) + FMul(r, T) = 0 THEN NaN ELSE Fin(0))
    ELSE Fin(FMul(FMul(S, NormPdf(D1(S, K, T, r, Abs(sigma.v)))), FSqrt(T)))

(***************************************************************************)
(* implied_volatility (lines 266-282).                                     *)
(***************************************************************************)

\* The risk-free rate of line 387, 0.05.
Rate == Dec4(500)
\* The first iterate of line 270, 0.3.
Sigma0 == Dec4(3000)
\* range(100) of line 271.
MaxIter == 100
\* 1e-10 of line 274 and 1e-6 of line 277: below the resolution, so one unit.
VegaEps == 1
PriceTol == 1

\* Line 268: market_price <= max(S - K*exp(-r*T), 0).
IntrinsicBound(S, K, T, r) == Max(S - FMul(K, FExp(-FMul(r, T))), 0)
\* Line 268 with a strict comparison.
BelowBoundStrict(mp, S, K, T, r) == mp < IntrinsicBound(S, K, T, r)

BelowBound(mp, S, K, T, r) == mp <= IntrinsicBound(S, K, T, r)

\* The marker of "no value": the iterate before line 279 has run.
NoVal == [k |-> "none", v |-> 0]

\* Line 280 with its test left out.
NonPositiveNever(sigma) == FALSE

\* Line 280: if sigma <= 0.
NonPositive(sigma) == FlLe(sigma, Fin(0))

\* Lines 274-281 from the vega of line 273 and diff of line 276: how the
\* pass ends (break of line 275, return of line 278 or 281, or the next
\* pass), the value it ends with, and the iterate line 279 assigned, if it
\* ran.
NewtonDecide(sigma, vega, diff, next) ==
    IF FlLt(FlAbs(vega), Fin(VegaEps))
    THEN [act |-> "break", val |-> sigma, upd |-> NoVal]
    ELSE IF FlLt(FlAbs(diff), Fin(PriceTol))
    THEN [act |-> "return", val |-> sigma, upd |-> NoVal]
    ELSE IF NonPositive(next)
    THEN [act |-> "return", val |-> NaN, upd |-> next]
    ELSE [act |-> "continue", val |-> next, upd |-> next]
NewtonUpdate(sigma, vega, diff) ==
    NewtonDecide(sigma, vega, diff, FlAdd(sigma, FlDiv(diff, vega)))

\* One pass of the loop body (lines 272-281) from iterate sigma.
NewtonIter(mp, S, K, T, r, sigma) ==
    NewtonUpdate(sigma, Vega(S, K, T, r, sigma),
                 FlSub(Fin(mp), black_scholes_call(S, K, T, r, sigma)))

\* Line 282: sigma if sigma > 0 else nan.
LoopExit(sigma) == IF FlGt(sigma, Fin(0)) THEN sigma ELSE NaN

(***************************************************************************)
(* calculate_pdf_from_calls (lines 316-333).  strikes is a sequence of     *)
(* finite numbers, call_prices a sequence of IEEE values.                  *)
(***************************************************************************)

\* Line 319 as strikes[2:-1]: one point more is dropped.
InteriorFromThird(strikes) ==
    IF Len(strikes) < 4 THEN <<>> ELSE SubSeq(strikes, 3, Len(strikes) - 1)

\* Line 319: strikes[1:-1].
Interior(strikes) ==
    IF Len(strikes) < 3 THEN <<>> ELSE SubSeq(strikes, 2, Len(strikes) - 1)

\* Line 324 with the middle price taken once.
SecondDerivSingle(c0, c1, c2, dK) ==
    FlDiv(FlDiv(FlAdd(FlSub(c0, c1), c2), Fin(dK)), Fin(dK))

\* Line 324: (c0 - 2*c1 + c2) / dK**2.  The square of a spacing is below
\* the resolution, so the quotient is taken by dK twice; a zero spacing
\* divides by zero.
SecondDeriv(c0, c1, c2, dK) ==
    LET num == FlAdd(FlSub(c0, FlAdd(c1, c1)), c2)
    IN  FlDiv(FlDiv(num, Fin(dK)), Fin(dK))

\* Lines 322-325: the value at interior point j (counted from 1).
RawDensity(strikes, call_prices, r, tau, j) ==
    LET dK == strikes[j + 1] - strikes[j]
    IN  FlMul(Fin(FExp(FMul(r, tau))),
              SecondDeriv(call_prices[j], call_prices[j + 1], call_prices[j + 2], dK))

\* The sum of f[lo..hi], in halves.
RECURSIVE FlSum(_, _, _)
FlSum(f, lo, hi) ==
    IF lo > hi THEN Fin(0)
    ELSE IF lo = hi THEN f[lo]
    ELSE LET mid == (lo + hi) \div 2
         IN  FlAdd(FlSum(f, lo, mid), FlSum(f, mid + 1, hi))

\* np.trapz(y, x): the sum of (x[j+1] - x[j]) * (y[j] + y[j+1]) / 2.
Trapz(y, x) ==
    LET term == [j \in 1..(Len(x) - 1) |->
                    FlMul(Fin(x[j + 1] - x[j]),
                          FlDiv(FlAdd(y[j], y[j + 1]), Fin(2 * Scale)))]
    IN  FlSum(term, 1, Len(x) - 1)

\* Line 329 as integral >= 0.
NormalizesFromZero(integral) == FlLe(Fin(0), integral)

\* Line 329: if integral > 0.
Normalizes(integral) == FlGt(integral, Fin(0))

\* Line 330 without the division.
NormalizeNot(values, integral) == values

\* Line 330: pdf_values / integral.
Normalize(values, integral) ==
    [j \in 1..Len(values) |-> FlDiv(values[j], integral)]

\* Lines 320-325: the values at the interior points, as the loop leaves
\* them.
RawValues(strikes, call_prices, r, tau) ==
    [j \in 1..Len(Interior(strikes)) |-> RawDensity(strikes, call_prices, r, tau, j)]

\* Line 327 left out.
ClampNot(values) == values

\* Line 327: np.maximum(pdf_values, 0).
ClampAtZero(values) == [j \in 1..Len(values) |-> FlMax0(values[j])]

\* Lines 329-333 from the integral of line 328: what the function returns
\* (pdf_strikes, pdf_values) with the values of lines 325, 327 and 328 and
\* the integral that line 332 logs.
PDFReturn(strikes, call_prices, tau, pdf_strikes, raw, clamped, integral, pdf_values) ==
    [called |-> TRUE, strikes |-> strikes, call_prices |-> call_prices,
     tau |-> tau, pdf_strikes |-> pdf_strikes, raw |-> raw, clamped |-> clamped,
     integral |-> integral, divided |-> Normalizes(integral),
     pdf_values |-> pdf_values, logged |-> Trapz(pdf_values, pdf_strikes)]
PDFNormalized(strikes, call_prices, tau, pdf_strikes, raw, clamped, integral) ==
    PDFReturn(strikes, call_prices, tau, pdf_strikes, raw, clamped, integral,
              IF Normalizes(integral) THEN Normalize(clamped, integral) ELSE clamped)

\* Line 328 on the clamped values, and the rest of the function.
PDFIntegrated(strikes, call_prices, tau, pdf_strikes, raw, clamped) ==
    PDFNormalized(strikes, call_prices, tau, pdf_strikes, raw, clamped,
                  Trapz(clamped, pdf_strikes))

\* Line 327 on the values of the loop, and the rest of the function.
PDFClamped(strikes, call_prices, tau, pdf_strikes, raw) ==
    PDFIntegrated(strikes, call_prices, tau, pdf_strikes, raw, ClampAtZero(raw))

\* The whole of calculate_pdf_from_calls.
calculate_pdf_from_calls(strikes, call_prices, r, tau) ==
    PDFClamped(strikes, call_prices, tau, Interior(strikes),
               RawValues(strikes, call_prices, r, tau))

\* np.linspace(lo, hi, n), n >= 2.
Linspace(lo, hi, n) == [j \in 1..n |-> lo + RDiv((j - 1) * (hi - lo), n - 1)]

(***************************************************************************)
(* svi_variance, fit_svi and the smooth curve of calculate_pdf.            *)
(***************************************************************************)

\* np.sqrt(x**2 + s**2), the root taken of the exact squares: in float64
\* the result is never below |x|, which squares rounded to the resolution
\* would lose.
Hypot(x, s) == ISqrt(x * x + s * s)

\* Lines 284-287: a + b*(rho*(k - m) + sqrt((k - m)**2 + sigma**2)); a is a
\* float64 that may be NaN (see InitialGuess).
svi_variance(k, params) ==
    FlAdd(params.a,
          Fin(FMul(params.b,
                   FMul(params.rho, k - params.m) + Hypot(k - params.m, params.sigma))))

\* Line 303 without the bounds on rho.
InSVIBoundsAnyRho(params) ==
    /\ FlLe(Fin(0), params.a)
    /\ params.b >= 0
    /\ params.sigma >= 1

\* Line 303: the bounds handed to the optimizer (1e-6 is one unit).
InSVIBounds(params) ==
    /\ FlLe(Fin(0), params.a)
    /\ params.b >= 0
    /\ -Scale <= params.rho /\ params.rho <= Scale
    /\ params.sigma >= 1

\* np.sqrt on an IEEE value: NaN below zero.
FlSqrt(a) ==
    IF IsNaN(a) \/ a.k = "ninf" THEN NaN
    ELSE IF a.k = "pinf" THEN PInf
    ELSE IF a.v < 0 THEN NaN
    ELSE Fin(FSqrt(a.v))

\* Line 401: forward = current_price * exp(r * tau).
Forward(S, r, tau) == FMul(S, FExp(FMul(r, tau)))

\* Lines 296 and 406: log-moneyness log(K / forward).
LogMoneyness(K, forward) == FLn(FDiv(K, forward))

\* Line 408: sqrt(fitted_var / tau), a division by zero when tau = 0.
FittedIV(fitted_var, tau) == FlSqrt(FlDiv(fitted_var, Fin(tau)))

\* The number of points of line 405.
GridN == 200

SeqMin(q) == CHOOSE v \in {q[j] : j \in 1..Len(q)} : \A j \in 1..Len(q) : v <= q[j]
SeqMax(q) == CHOOSE v \in {q[j] : j \in 1..Len(q)} : \A j \in 1..Len(q) : v >= q[j]

\* Lines 405-413 for a non-empty strikes: the dense grid, the fitted
\* volatilities on it and the Black-Scholes prices at them.
SmoothPrices(smooth_strikes, fitted_IVs, S, r, tau) ==
    [smooth_strikes |-> smooth_strikes,
     fitted_IVs |-> fitted_IVs,
     smooth_call_prices |->
         [j \in 1..GridN |->
             black_scholes_call(S, smooth_strikes[j], tau, r, fitted_IVs[j])]]
SmoothIVs(smooth_strikes, params, forward, S, r, tau) ==
    SmoothPrices(smooth_strikes,
                 [j \in 1..GridN |->
                     FittedIV(svi_variance(LogMoneyness(smooth_strikes[j], forward),
                                           params), tau)],
                 S, r, tau)
SmoothCurve(strikes, params, S, r, tau) ==
    SmoothIVs(Linspace(SeqMin(strikes), SeqMax(strikes), GridN), params,
              Forward(S, r, tau), S, r, tau)

(***************************************************************************)
(* config_loader.py: the API key.  A text is the sequence of its pieces:   *)
(* "N" is the name ANTHROPIC_API_KEY, "P" the prefix sk-ant-, "=", "#",    *)
(* " ", "dq" and "sq" (the two quotes) are themselves, any other piece is  *)
(* a run of other characters.                                              *)
(***************************************************************************)
RECURSIVE LStrip(_, _)
LStrip(s, chars) ==
    IF s # <<>> /\ Head(s) \in chars THEN LStrip(Tail(s), chars) ELSE s
RECURSIVE RStrip(_, _)
RStrip(s, chars) ==
    IF s # <<>> /\ s[Len(s)] \in chars
    THEN RStrip(SubSeq(s, 1, Len(s) - 1), chars) ELSE s
\* str.strip, str.startswith, the operator in, str.split(c, 1)[1] and
\* str.replace(c, '').
StripOf(s, chars) == RStrip(LStrip(s, chars), chars)
StartsWith(s, c) == s # <<>> /\ Head(s) = c
Contains(s, c) == \E i \in 1..Len(s) : s[i] = c
FirstIndex(s, c) ==
    CHOOSE i \in 1..Len(s) : s[i] = c /\ \A j \in 1..(i - 1) : s[j] # c
AfterFirst(s, c) == SubSeq(s, FirstIndex(s, c) + 1, Len(s))
Without(s, c) == SelectSeq(s, LAMBDA t : t # c)

\* None, and a string, as a function returns them.
NoKey == [set |-> FALSE, v |-> <<>>]
Key(v) == [set |-> TRUE, v |-> v]
\* "if api_key:" is false for None and for the empty string.
Truthy(k) == k.set /\ k.v # <<>>

\* Lines 60-65: the text of the key in a line that names it.
KeyOfLine(line) ==
    IF Contains(line, "=") THEN StripOf(AfterFirst(line, "="), {" "})
    ELSE StripOf(Without(line, "N"), {" "})
\* Line 68: the quotes taken off.
Unquote(key) == StripOf(StripOf(key, {"dq"}), {"sq"})
\* Line 71: "if key and key.startswith('sk-ant-')".
KeyLooksReal(key) == key # <<>> /\ StartsWith(key, "P")
\* Lines 71-72 on the key of a line that names it, then lines 75-76.
NamedKey(line, key) ==
    IF KeyLooksReal(key) THEN Key(key)
    ELSE IF StartsWith(line, "P") THEN Key(line)
    ELSE NoKey
\* Lines 54-76: one line of the file, stripped (line 52).
ScanStripped(line) ==
    IF line = <<>> \/ StartsWith(line, "#") THEN NoKey
    ELSE IF Contains(line, "N") THEN NamedKey(line, Unquote(KeyOfLine(line)))
    ELSE IF StartsWith(line, "P") THEN Key(line)
    ELSE NoKey
ScanLine(line) == ScanStripped(StripOf(line, {" "}))
\* Lines 51-76: the first line that gives a key.
RECURSIVE ScanLines(_)
ScanLines(lines) ==
    IF lines = <<>> THEN NoKey
    ELSE IF ScanLine(Head(lines)).set THEN ScanLine(Head(lines))
    ELSE ScanLines(Tail(lines))
\* Lines 44-81: None for a file that is not there, and for one that cannot
\* be opened or decoded (the except of line 78).
read_key_from_file(file) ==
    IF ~file.exists \/ ~file.readable THEN NoKey ELSE ScanLines(file.lines)

\* Lines 8-41: the environment variable, then .env, then config.txt; read
\* lists the files opened.
KeyFromConfig(k) ==
    [ret |-> IF Truthy(k) THEN k ELSE NoKey, read |-> <<".env", "config.txt">>]
KeyFromDotEnv(k, config) ==
    IF Truthy(k) THEN [ret |-> k, read |-> <<".env">>]
    ELSE KeyFromConfig(read_key_from_file(config))
ConfigBeforeDotEnv(env, dotenv, config) ==
    IF Truthy(env) THEN [ret |-> env, read |-> <<>>]
    ELSE KeyFromDotEnv(read_key_from_file(config), dotenv)
get_api_key(env, dotenv, config) ==
    IF Truthy(env) THEN [ret |-> env, read |-> <<>>]
    ELSE KeyFromDotEnv(read_key_from_file(dotenv), config)

(***************************************************************************)
(* ai_analysis.py.  An analysis text is the sequence of its parts; mark is *)
(* the sign a part opens with: "cross" for a failure message, "robot" for  *)
(* the AI analysis, "chart" for the rule-based one.                        *)
(***************************************************************************)
Part(mark, kind, body) == [mark |-> mark, kind |-> kind, body |-> body]
\* How a call ends: with the text returned, or with the exception raised.
Returns(text) == [raised |-> FALSE, exc |-> "", text |-> text]
Raises(exc) == [raised |-> TRUE, exc |-> exc, text |-> <<>>]

\* Lines 203 and 209: int(tau * 365), and the index np.argmin gives.
DaysToExpiry(tau) == (tau * 365) \div Scale
AtmIndex(strikes, price) ==
    CHOOSE i \in 1..Len(strikes) :
        /\ \A j \in 1..Len(strikes) : Abs(strikes[i] - price) <= Abs(strikes[j] - price)
        /\ \A j \in 1..(i - 1) : Abs(strikes[j] - price) > Abs(strikes[i] - price)
\* Lines 257-265 and 298-305: the level of the at-the-money volatility and
\* the time factor.
Level(atm_iv) ==
    IF atm_iv > Dec4(4000) THEN "HIGH"
    ELSE IF atm_iv > Dec4(2500) THEN "MODERATE" ELSE "LOW"
TimeFactor(days_to_expiry) ==
    IF days_to_expiry <= 7 THEN "near"
    ELSE IF days_to_expiry <= 30 THEN "monthly" ELSE "none"
\* Lines 187-309: the rule-based text, here its heading, the level and the
\* time factor; the skew, the percentiles and the bias are further lines of
\* the same text.
BasicBody(ticker, atm_iv, days_to_expiry) ==
    [ticker |-> ticker, days_to_expiry |-> days_to_expiry,
     level |-> Level(atm_iv), time |-> TimeFactor(days_to_expiry)]
generate_basic_analysis(results) ==
    <<Part("chart", "basic",
           BasicBody(results.ticker,
                     results.IVs[AtmIndex(results.strikes, results.current_price)],
                     DaysToExpiry(results.tau)))>>

\* Lines 22-184.  With no key in the environment line 44 calls
\* load_env_file, a name the module neither defines nor imports (it imports
\* numpy and os, and anthropic under a try): a NameError, raised outside any
\* try.  With a key, the call of the API gives the analysis or the text of
\* its exception (lines 169-184).
generate_ai_analysis(results, sdk, env, api_ok) ==
    IF ~sdk THEN Returns(<<Part("cross", "sdk_missing", results.ticker)>>)
    ELSE IF ~Truthy(env)
    THEN Raises("NameError: name 'load_env_file' is not defined")
    ELSE IF api_ok THEN Returns(<<Part("robot", "ai", results.ticker)>>)
    ELSE Returns(<<Part("cross", "ai_error", results.ticker)>>)

\* Line 330: ai_result.startswith of the failure sign.
StartsWithCross(text) == text # <<>> /\ Head(text).mark = "cross"
\* Lines 328-332: what analyze does with what generate_ai_analysis gave; an
\* exception passes through, analyze has no try.
AfterAI(ai_result, results) ==
    IF ai_result.raised THEN ai_result
    ELSE IF StartsWithCross(ai_result.text)
    THEN Returns(ai_result.text \o generate_basic_analysis(results))
    ELSE ai_result
\* Lines 312-334.
analyze(results, use_ai, sdk, env, api_ok) ==
    IF use_ai /\ sdk
    THEN AfterAI(generate_ai_analysis(results, sdk, env, api_ok), results)
    ELSE Returns(generate_basic_analysis(results))

(***************************************************************************)
(* State.                                                                  *)
(***************************************************************************)

VARIABLES
    pc,            \* where calculate_pdf stands, "idle" between two runs
    status,        \* the text of status_label
    last_results,  \* self.last_results
    run,           \* the locals of the running calculate_pdf
    iv,            \* the activation of implied_volatility: position and locals
    bs,            \* the last call of black_scholes_call and what it returned
    px,            \* the last call of calculate_pdf_from_calls and its result
    sv,            \* the last call of svi_variance and what it returned
    prev,          \* the run before the one at hand, as it ended (history)
    fs,            \* the last call of fit_svi: what it logged, passed and got
    an,            \* the last call of analyze and how it ended
    ak             \* the last call of get_api_key and what it returned

vars == <<pc, status, last_results, run, iv, bs, px, sv, prev, fs, an, ak>>
appVars == <<pc, status, last_results, run>>

\* The locals of calculate_pdf before a run (with them iv_calls, the number
\* of calls of implied_volatility, rets, what each returned, stages, the
\* stages passed, stored, whether line 421 ran, and error, the message of
\* the exception caught), and self.last_results = None (line 68).
NoParams == [a |-> Fin(0), b |-> 0, rho |-> 0, m |-> 0, sigma |-> 0]
NoCurve == [smooth_strikes |-> <<>>, fitted_IVs |-> <<>>, smooth_call_prices |-> <<>>]

RunIdle ==
    [ticker |-> <<>>, price |-> 0, days |-> 0, quotes |-> <<>>, calls |-> <<>>,
     tau |-> 0, qi |-> 0, iv_calls |-> 0, rets |-> <<>>, strikes |-> <<>>,
     IVs |-> <<>>,
     params |-> NoParams, curve |-> NoCurve, stored |-> FALSE,
     stages |-> <<>>, error |-> ""]

None == [set |-> FALSE]

\* Before the first call of each function.
BSIdle == [called |-> FALSE, S |-> 0, K |-> 0, T |-> 0, sigma |-> NoVal,
           closed |-> FALSE, ret |-> NoVal]

PXIdle == [called |-> FALSE, strikes |-> <<>>, call_prices |-> <<>>, tau |-> 0,
           pdf_strikes |-> <<>>, raw |-> <<>>, clamped |-> <<>>, integral |-> NoVal,
           divided |-> FALSE, pdf_values |-> <<>>, logged |-> NoVal]

SVIdle == [called |-> FALSE, k |-> 0, params |-> NoParams, ret |-> NoVal]

\* Before the first call of fit_svi: nothing logged, minimize not called.
FSIdle == [called |-> FALSE, x0 |-> NoParams, opt_calls |-> 0,
           success |-> FALSE, nit |-> 0, x |-> NoParams, trace |-> <<>>,
           ret |-> NoParams]

\* No run before the first.
NoPrev == [set |-> FALSE]

\* Before the first call of analyze and of get_api_key.
NoResults == [ticker |-> <<>>, current_price |-> 0, tau |-> 0,
              strikes |-> <<>>, IVs |-> <<>>]
ANIdle == [called |-> FALSE, results |-> NoResults, use_ai |-> FALSE,
           sdk |-> FALSE, env |-> NoKey, api_ok |-> FALSE, out |-> Returns(<<>>)]
NoFile == [exists |-> FALSE, readable |-> FALSE, lines |-> <<>>]
AKIdle == [called |-> FALSE, env |-> NoKey, dotenv |-> NoFile, config |-> NoFile,
           ret |-> NoKey, read |-> <<>>]

IVIdle ==
    [pc |-> "idle", mp |-> 0, S |-> 0, K |-> 0, T |-> 0, sigma |-> NoVal,
     i |-> 0, passes |-> 0, upd |-> NoVal, ret |-> NoVal]

\* Lines 266-270: entry of implied_volatility, up to the first iterate.
IVEnter(mp, S, K, T) ==
    IF BelowBound(mp, S, K, T, Rate)
    THEN [IVIdle EXCEPT !.pc = "done", !.mp = mp, !.S = S, !.K = K, !.T = T,
                        !.ret = NaN]
    ELSE [IVIdle EXCEPT !.pc = "loop", !.mp = mp, !.S = S, !.K = K, !.T = T,
                        !.sigma = Fin(Sigma0)]

\* Lines 271-281: one pass of the for loop, or its exhaustion.
IVAfter(a, st) ==
    IF st.act = "break"
    THEN [a EXCEPT !.passes = a.passes + 1, !.upd = st.upd, !.pc = "exit"]
    ELSE IF st.act = "return"
    THEN [a EXCEPT !.passes = a.passes + 1, !.upd = st.upd, !.pc = "done",
                   !.ret = st.val]
    ELSE [a EXCEPT !.passes = a.passes + 1, !.upd = st.upd, !.sigma = st.val,
                   !.i = a.i + 1]
\* The loop without the end of its range.
IVPassUnbounded(a) == IVAfter(a, NewtonIter(a.mp, a.S, a.K, a.T, Rate, a.sigma))
IVPass(a) ==
    IF a.i >= MaxIter THEN [a EXCEPT !.pc = "exit"]
    ELSE IVAfter(a, NewtonIter(a.mp, a.S, a.K, a.T, Rate, a.sigma))

\* Line 282: the return after the loop.
IVFallThrough(a) == [a EXCEPT !.pc = "done", !.ret = LoopExit(a.sigma)]

NewtonStep ==
    /\ iv.pc = "loop"
    /\ iv' = IVPass(iv)
    /\ UNCHANGED <<appVars, bs, sv, prev, fs, an, ak, px>>

LoopFallThrough ==
    /\ iv.pc = "exit"
    /\ iv' = IVFallThrough(iv)
    /\ UNCHANGED <<appVars, bs, sv, prev, fs, an, ak, px>>

(***************************************************************************)
(* The inputs the functions are called with.  The spot is 1.0 and the      *)
(* strikes lie 0.0995 apart around it; the time to expiry is a whole       *)
(* number of days over 365 (line 384), and an expiry of today or yesterday *)
(* gives 0 or a negative time.                                             *)
(***************************************************************************)

Spot == Scale
StrikeStep == 5 * 199
StrikeAt(j) == Spot + (j - 2) * StrikeStep
Days == {-1, 0, 30}
\* Line 384: days / 365.0.
TauOf(days) == RDiv(days * Scale, 365)

\* The volatilities the pricer is called with: the solver's iterates are
\* positive, zero or negative reals, and not a number only once the time to
\* expiry is not positive (the vega of line 273 is then not a number).
BSSigmas(T) ==
    {Fin(Dec4(-1000)), Fin(0), Fin(Dec4(500)), Fin(Dec4(3000)), Fin(Dec4(20000)),
     PInf} \cup (IF T <= 0 THEN {NaN, NInf} ELSE {})

\* A call of black_scholes_call(S, K, T, Rate, sigma): what it returns and
\* whether it went past line 260 to the closed form.
BSCall(S, K, T, sigma) ==
    /\ bs' = [called |-> TRUE, S |-> S, K |-> K, T |-> T, sigma |-> sigma,
              closed |-> ~BSDegenerate(T, sigma),
              ret |-> black_scholes_call(S, K, T, Rate, sigma)]
    /\ UNCHANGED <<appVars, iv, px, sv, prev, fs, an, ak>>

InitApp ==
    /\ pc = "idle"
    /\ status = "Ready"
    /\ last_results = None
    /\ run = RunIdle
    /\ prev = NoPrev

\* No function has been called yet.
FnIdle ==
    /\ iv = IVIdle /\ bs = BSIdle /\ px = PXIdle /\ sv = SVIdle
    /\ fs = FSIdle /\ an = ANIdle /\ ak = AKIdle

InitBS == InitApp /\ FnIdle
NextBS ==
    \E S \in {Spot, StrikeAt(0)}, j \in 0..4, d \in Days :
        \E sigma \in BSSigmas(TauOf(d)) : BSCall(S, StrikeAt(j), TauOf(d), sigma)
SpecBS == InitBS /\ [][NextBS]_vars

\* The prices the solver is called with, around the bound of line 268 and
\* up to more than the spot.
IVPrices(K, T) ==
    LET lb == IntrinsicBound(Spot, K, T, Rate)
    IN  {0, lb, lb + 1, lb + 5, lb + 40, lb + 300, lb + 2000, Spot + 500}

\* A call of implied_volatility(mp, Spot, K, T, Rate) from outside the
\* pipeline.
IVCall(mp, K, T) ==
    /\ iv.pc \in {"idle", "done"}
    /\ iv' = IVEnter(mp, Spot, K, T)
    /\ UNCHANGED <<appVars, bs, sv, prev, fs, an, ak, px>>

InitIV == InitApp /\ FnIdle
\* The strikes of the calls: those about the spot and one far above it.
IVStrikes == {0, 1, 2, 3, 4, 7}
NextIV ==
    \/ /\ iv.pc \in {"idle", "done"}
       /\ \E j \in IVStrikes, d \in Days :
              \E mp \in IVPrices(StrikeAt(j), TauOf(d)) : IVCall(mp, StrikeAt(j), TauOf(d))
    \/ NewtonStep
    \/ LoopFallThrough
SpecIV == InitIV /\ [][NextIV]_vars
\* The body of implied_volatility is straight-line code of one thread: a
\* pass that can be made is made, and so is the return of line 282.
\* NewtonPassFair is WF_vars(NewtonStep) with ENABLED <<NewtonStep>>_vars
\* written out: a pass can be made exactly in the loop, and it changes
\* iv.passes or iv.pc.
NewtonPassFair == []<>(iv.pc # "loop") \/ []<><<NewtonStep>>_vars
SpecIVFair == SpecIV /\ NewtonPassFair /\ WF_vars(LoopFallThrough)

\* The round trip: black_scholes_call at a volatility sigma0 in [0.05, 2.0)
\* and a positive maturity, and implied_volatility on the price it returned.
RoundDays == {30, 365}
RoundSigmas == {Dec4(500), Dec4(1000), Dec4(4000), Dec4(10000), Dec4(19900)}
RoundTrip(K, T, sigma0) ==
    /\ iv.pc \in {"idle", "done"}
    /\ bs' = [called |-> TRUE, S |-> Spot, K |-> K, T |-> T, sigma |-> Fin(sigma0),
              closed |-> ~BSDegenerate(T, Fin(sigma0)),
              ret |-> black_scholes_call(Spot, K, T, Rate, Fin(sigma0))]
    /\ iv' = IVEnter(bs'.ret.v, Spot, K, T)
    /\ UNCHANGED <<appVars, sv, prev, fs, an, ak, px>>
NextRound ==
    \/ /\ iv.pc \in {"idle", "done"}
       /\ \E j \in 0..4, d \in RoundDays, sigma0 \in RoundSigmas :
              RoundTrip(StrikeAt(j), TauOf(d), sigma0)
    \/ NewtonStep
    \/ LoopFallThrough
SpecRound == InitIV /\ [][NextRound]_vars

\* The grids the extractor is called with are those of line 405: MinGrid to
\* MaxGrid points from 1.0 up, evenly spaced, or all equal when the lowest
\* and highest strike coincide.  The call prices are 0, a quarter
\* and a half.
MinGrid == 3
MaxGrid == 5
GridSteps == {0, Scale \div 2, Scale}
PriceLevels == {Fin(q * (Scale \div 4)) : q \in 0..2}
PriceArrays(n) == [1..n -> PriceLevels]

\* A call of calculate_pdf_from_calls from outside the pipeline, before the
\* first run, and the caller done with what it returned.
PDFCall(strikes, call_prices, tau) ==
    /\ pc = "idle" /\ status = "Ready"
    /\ ~px.called
    /\ px' = calculate_pdf_from_calls(strikes, call_prices, Rate, tau)
    /\ UNCHANGED <<appVars, iv, bs, sv, prev, fs, an, ak>>

PDFDone ==
    /\ pc = "idle" /\ status = "Ready"
    /\ px.called
    /\ px' = PXIdle
    /\ UNCHANGED <<appVars, iv, bs, sv, prev, fs, an, ak>>

InitPDF == InitApp /\ FnIdle
NextPDF ==
    \/ /\ pc = "idle" /\ status = "Ready" /\ ~px.called
       /\ \E n \in MinGrid..MaxGrid, step \in GridSteps, d \in {0, 30} :
              \E c \in PriceArrays(n) :
                  PDFCall(Linspace(Spot, Spot + (n - 1) * step, n), c, TauOf(d))
    \/ PDFDone
SpecPDF == InitPDF /\ [][NextPDF]_vars

(***************************************************************************)
(* calculate_pdf (lines 335-454), one action per stage.  What yfinance     *)
(* returns, what the optimizer returns and whether the drawing and the     *)
(* analysis come back or raise are choices of the environment.             *)
(***************************************************************************)

\* Lines 390 and 376: the mid price and the liquidity test of a quote.
Mid(q) == RDiv(q.bid + q.ask, 2)
Liquid(q) == q.volume > 0 /\ q.bid > 0

\* The least number of liquid quotes (line 378).
MinQuotes == 5

\* Line 378 with one quote less asked for.
TooFewBelowFour(calls) == Len(calls) < MinQuotes - 1

\* Line 378: len(calls) < 5.
TooFew(calls) == Len(calls) < MinQuotes

\* sort_values('strike') on quotes of distinct strikes.
RECURSIVE SortByStrike(_)
SortByStrike(q) ==
    IF Len(q) <= 1 THEN q
    ELSE LET lo == CHOOSE j \in 1..Len(q) : \A i \in 1..Len(q) : q[j].strike <= q[i].strike
         IN  <<q[lo]>> \o SortByStrike(SubSeq(q, 1, lo - 1) \o SubSeq(q, lo + 1, Len(q)))

\* Line 393 without its upper bound.
InBandNoUpper(ivx) == ~IsNaN(ivx) /\ FlLt(Fin(Dec4(500)), ivx)

\* Line 393: not np.isnan(iv) and 0.05 < iv < 2.0.
InBand(ivx) ==
    ~IsNaN(ivx) /\ FlLt(Fin(Dec4(500)), ivx) /\ FlLt(ivx, Fin(Dec4(20000)))

\* ticker_entry.get().upper().strip() on a text given as its characters.
Upper(c) == IF c = "s" THEN "S" ELSE IF c = "p" THEN "P" ELSE IF c = "y" THEN "Y" ELSE c
RECURSIVE Strip(_)
Strip(t) ==
    IF t = <<>> THEN t
    ELSE IF Head(t) = " " THEN Strip(Tail(t))
    ELSE IF t[Len(t)] = " " THEN Strip(SubSeq(t, 1, Len(t) - 1))
    ELSE t
TickerOf(entry) == Strip([j \in 1..Len(entry) |-> Upper(entry[j])])

\* An except clause after which the try block goes on.
RaiseAndGoOn(msg) ==
    /\ pc' = pc
    /\ status' = "Error"
    /\ run' = [run EXCEPT !.error = msg]

\* Lines 447-454: the except clause of calculate_pdf.
Raise(msg) ==
    /\ pc' = "idle"
    /\ status' = "Error"
    /\ run' = [run EXCEPT !.error = msg]

\* The locals of an invocation that kept those of the one before.
StaleLocals(old) == [old EXCEPT !.stages = <<>>, !.stored = FALSE, !.error = ""]

\* Line 335: the locals of an invocation are new, whatever the one before
\* left.
FreshLocals(old) == RunIdle

\* Lines 337-352: the start of a run, and its return on an empty ticker.
Start(entry) ==
    /\ pc = "idle"
    /\ status' = "Calculating"
    /\ run' = [FreshLocals(run) EXCEPT !.ticker = TickerOf(entry)]
    /\ pc' = IF TickerOf(entry) = <<>> THEN "idle" ELSE "fetch"
    /\ iv' = IVIdle
    /\ px' = PXIdle
    /\ fs' = FSIdle
    /\ UNCHANGED <<last_results, bs, sv, an, ak>>

Calculate(entry) == Start(entry) /\ UNCHANGED prev

\* The same, with the run that has ended kept aside to compare the next
\* one with.
Recalculate(entry) ==
    /\ Start(entry)
    /\ prev' = [set |-> TRUE, run |-> run, px |-> px, status |-> status]

\* Lines 354-373: the price, the expirations and the chain of the first
\* expiration, as yfinance gives them.
FetchFails(msg) ==
    /\ pc = "fetch"
    /\ Raise(msg)
    /\ UNCHANGED <<last_results, iv, bs, sv, prev, fs, an, ak, px>>

Fetch(quotes, days) ==
    /\ pc = "fetch"
    /\ run' = [run EXCEPT !.price = Spot, !.quotes = quotes, !.days = days,
                          !.stages = Append(@, "fetch")]
    /\ pc' = "filter"
    /\ UNCHANGED <<status, last_results, iv, bs, sv, prev, fs, an, ak, px>>

\* Lines 374-387: the liquid calls by strike, the test of their number, the
\* time to expiry.
FilterQuotes ==
    /\ pc = "filter"
    /\ LET calls == SortByStrike(SelectSeq(run.quotes, Liquid))
       IN  IF TooFew(calls)
           THEN Raise("Insufficient liquid options")
           ELSE /\ run' = [run EXCEPT !.calls = calls, !.tau = TauOf(run.days),
                                      !.qi = 1, !.stages = Append(@, "filter")]
                /\ pc' = "iv"
                /\ UNCHANGED status
    /\ UNCHANGED <<last_results, iv, bs, sv, prev, fs, an, ak, px>>

\* Line 392: the call of implied_volatility for the quote at hand.
IVStart ==
    /\ pc = "iv"
    /\ iv.pc = "idle"
    /\ iv' = IVEnter(Mid(run.calls[run.qi]), run.price, run.calls[run.qi].strike, run.tau)
    /\ run' = [run EXCEPT !.iv_calls = @ + 1]
    /\ UNCHANGED <<pc, status, last_results, bs, sv, prev, fs, an, ak, px>>

\* Lines 393-398: the quote is kept or dropped; after the last one the lists
\* become arrays.
IVCollect ==
    /\ pc = "iv"
    /\ iv.pc = "done"
    /\ run' = [run EXCEPT
                 !.strikes = IF InBand(iv.ret) THEN Append(@, run.calls[run.qi].strike) ELSE @,
                 !.IVs = IF InBand(iv.ret) THEN Append(@, iv.ret.v) ELSE @,
                 !.rets = Append(@, iv.ret),
                 !.qi = @ + 1,
                 !.stages = IF run.qi = Len(run.calls) THEN Append(@, "iv") ELSE @]
    /\ pc' = IF run.qi = Len(run.calls) THEN "fit" ELSE "iv"
    /\ iv' = IVIdle
    /\ UNCHANGED <<status, last_results, bs, sv, prev, fs, an, ak, px>>

\* np.median of a sequence of numbers: NaN when it is empty.
RECURSIVE SortNums(_)
SortNums(q) ==
    IF Len(q) <= 1 THEN q
    ELSE LET lo == CHOOSE j \in 1..Len(q) : \A i \in 1..Len(q) : q[j] <= q[i]
         IN  <<q[lo]>> \o SortNums(SubSeq(q, 1, lo - 1) \o SubSeq(q, lo + 1, Len(q)))
Median(q) ==
    LET n == Len(q)
        o == SortNums(q)
    IN  IF n = 0 THEN NaN
        ELSE IF n % 2 = 1 THEN Fin(o[(n + 1) \div 2])
        ELSE Fin(RDiv(o[n \div 2] + o[n \div 2 + 1], 2))

\* Lines 297-298: atm_var = np.median(IVs**2 * tau).
AtmVar(IVs, tau) == Median([j \in 1..Len(IVs) |-> FMul(FMul(IVs[j], IVs[j]), tau)])

\* Line 299: the initial guess [atm_var, 0.1, 0.0, 0.0, 0.1]; atm_var is NaN
\* for empty arrays.
InitialGuess(atm_var) ==
    [a |-> atm_var, b |-> Dec4(1000), rho |-> 0, m |-> 0, sigma |-> Dec4(1000)]

\* The first iterate of L-BFGS-B: the initial guess moved into the bounds
\* by np.clip, which leaves a NaN as it is.
ClipA(a) == IF IsFin(a) THEN Fin(Max(a.v, 0)) ELSE a

\* Lines 305-306: what minimize may return as result.x.  The optimizer is
\* not part of the program.  From a finite first iterate it ends within the
\* bounds: it may stay at the first iterate, or end anywhere else, here at
\* the lower corner of the bounds.  From a NaN (the objective of line 291
\* is then the sum of an empty array, 0 at every x) no step changes the
\* NaN, and result.x has it.
SVIResults(atm_var) ==
    IF IsNaN(atm_var) THEN {InitialGuess(ClipA(atm_var))}
    ELSE {p \in {InitialGuess(ClipA(atm_var)),
                 [a |-> Fin(0), b |-> 0, rho |-> 0, m |-> 0, sigma |-> 1]} :
             InSVIBounds(p)}

\* Lines 306-307: the OptimizeResult of the one call of minimize: result.x,
\* result.success and result.nit (no iteration when the first iterate is
\* kept).  result.fun is read by the log line 309 alone.
MinimizeFrom(first, xs) ==
    {[x |-> p, success |-> s, nit |-> IF p = first THEN 0 ELSE 1] :
         p \in xs, s \in BOOLEAN}
Minimize(atm_var) ==
    MinimizeFrom(InitialGuess(ClipA(atm_var)), SVIResults(atm_var))

\* Lines 234-238: a line of the optimization output.
LogLine(ev, x, success, nit) ==
    [ev |-> ev, x |-> x, success |-> success, nit |-> nit]

\* The lines fit_svi logs, in the order of lines 295, 301, 305, 309, 310.
FitTraceOptimalFirst(initial_guess, result) ==
    <<LogLine("starting", NoParams, FALSE, 0),
      LogLine("optimal", result.x, FALSE, 0),
      LogLine("initial", initial_guess, FALSE, 0),
      LogLine("running", NoParams, FALSE, 0),
      LogLine("converged", NoParams, result.success, result.nit)>>
FitTrace(initial_guess, result) ==
    <<LogLine("starting", NoParams, FALSE, 0),
      LogLine("initial", initial_guess, FALSE, 0),
      LogLine("running", NoParams, FALSE, 0),
      LogLine("converged", NoParams, result.success, result.nit),
      LogLine("optimal", result.x, FALSE, 0)>>

\* Line 313: what fit_svi hands back of the result, whatever result.success.
ReturnedIfConverged(result) == IF result.success THEN result.x ELSE NoParams
Returned(result) == result.x

\* Lines 293-314: fit_svi from its initial guess and the result of minimize.
FitFrom(initial_guess, result) ==
    [called |-> TRUE, x0 |-> initial_guess, opt_calls |-> 1,
     success |-> result.success, nit |-> result.nit,
     x |-> result.x,
     trace |-> FitTrace(initial_guess, result),
     ret |-> Returned(result)]
fit_svi(IVs, tau, result) == FitFrom(InitialGuess(AtmVar(IVs, tau)), result)

\* Lines 401-402 with fit_svi (lines 293-314).
FitSVI(result) ==
    /\ pc = "fit"
    /\ result \in Minimize(AtmVar(run.IVs, run.tau))
    /\ fs' = fit_svi(run.IVs, run.tau, result)
    /\ run' = [run EXCEPT !.params = fs'.ret, !.stages = Append(@, "fit")]
    /\ pc' = "grid"
    /\ UNCHANGED <<status, last_results, iv, bs, sv, prev, an, ak, px>>

\* Lines 405-413: the dense grid and the prices on it; strikes.min() raises
\* on an empty array.
SmoothGrid ==
    /\ pc = "grid"
    /\ IF run.strikes = <<>>
       THEN Raise("zero-size array to reduction operation minimum which has no identity")
       ELSE /\ run' = [run EXCEPT
                         !.curve = SmoothCurve(run.strikes, run.params, run.price, Rate, run.tau),
                         !.stages = Append(@, "grid")]
            /\ pc' = "extract"
            /\ UNCHANGED status
    /\ UNCHANGED <<last_results, iv, bs, sv, prev, fs, an, ak, px>>

\* Lines 416-418: the call of calculate_pdf_from_calls.
ExtractPDF ==
    /\ pc = "extract"
    /\ px' = calculate_pdf_from_calls(run.curve.smooth_strikes,
                                      run.curve.smooth_call_prices, Rate, run.tau)
    /\ run' = [run EXCEPT !.stages = Append(@, "extract")]
    /\ pc' = "store"
    /\ UNCHANGED <<status, last_results, iv, bs, sv, prev, fs, an, ak>>

\* Lines 421-427: self.last_results = {...}.
Store ==
    /\ pc = "store"
    /\ last_results' =
           [set |-> TRUE, ticker |-> run.ticker, current_price |-> run.price,
            strikes |-> run.strikes, IVs |-> run.IVs,
            fitted_IVs |-> run.curve.fitted_IVs,
            smooth_strikes |-> run.curve.smooth_strikes,
            pdf_strikes |-> px.pdf_strikes, pdf_values |-> px.pdf_values,
            tau |-> run.tau, expiry |-> run.days, optimal_params |-> run.params]
    /\ run' = [run EXCEPT !.stored = TRUE, !.stages = Append(@, "store")]
    /\ pc' = "plot"
    /\ UNCHANGED <<status, iv, bs, sv, prev, fs, an, ak, px>>

\* Line 430: plot_results (lines 456-505) draws with matplotlib on the Tk
\* canvas; it comes back or raises.
Plot(ok) ==
    /\ pc = "plot"
    /\ IF ok
       THEN /\ run' = [run EXCEPT !.stages = Append(@, "plot")]
            /\ pc' = "analyze"
            /\ UNCHANGED status
       ELSE Raise("plot_results")
    /\ UNCHANGED <<last_results, iv, bs, sv, prev, fs, an, ak, px>>

\* Lines 433-445: analyze, log_analysis and the Complete status; the
\* analysis comes back or raises.
Analyze(ok) ==
    /\ pc = "analyze"
    /\ IF ok
       THEN /\ run' = [run EXCEPT !.stages = Append(@, "analyze")]
            /\ pc' = "idle"
            /\ status' = "Complete"
       ELSE Raise("analyze")
    /\ UNCHANGED <<last_results, iv, bs, sv, prev, fs, an, ak, px>>

\* The chains yfinance returns: six quotes at the strikes StrikeAt(0..5),
\* each of a kind.  "fair" is quoted at the Black-Scholes price for 30 days
\* and a volatility of 0.4, "floor" at the bound of line 268 for 30 days,
\* "high" above the spot; "dry" has no volume and "nobid" no bid.
FairPrice(K) == BSFormula(Spot, K, TauOf(30), Rate, Dec4(4000))
QuoteAt(kind, K, mid) ==
    [strike |-> K,
     bid |-> IF kind = "nobid" THEN 0 ELSE mid - 1,
     ask |-> mid + 1,
     volume |-> IF kind = "dry" THEN 0 ELSE 10]
QuoteOf(kind, K) ==
    QuoteAt(kind, K,
            IF kind = "floor" THEN IntrinsicBound(Spot, K, TauOf(30), Rate)
            ELSE IF kind = "high" THEN Spot + Dec4(500)
            ELSE FairPrice(K))
ChainOf(kinds) == [j \in 1..Len(kinds) |-> QuoteOf(kinds[j], StrikeAt(j - 1))]
Reversed(q) == [j \in 1..Len(q) |-> q[Len(q) + 1 - j]]
ChainKinds ==
    {<<"fair", "fair", "fair", "fair", "fair", "fair">>,
     <<"fair", "fair", "fair", "fair", "dry", "fair">>,
     <<"fair", "dry", "fair", "nobid", "fair", "fair">>,
     <<"floor", "fair", "high", "fair", "fair", "nobid">>,
     <<"floor", "floor", "fair", "high", "high", "dry">>,
     <<"floor", "floor", "floor", "high", "high", "high">>}
\* The chain with a dry fifth quote comes by descending strike.
Arrange(kinds, chain) == IF kinds[5] = "dry" THEN Reversed(chain) ELSE chain
Chains == {Arrange(kinds, ChainOf(kinds)) : kinds \in ChainKinds}

\* What is typed in the ticker entry.
Entries == {<<>>, <<" ">>, <<"s", "p", "y">>, <<" ", "S", "P", "Y", " ">>}

Init == InitApp /\ FnIdle
Next ==
    \/ pc = "idle" /\ \E entry \in Entries : Calculate(entry)
    \/ \E msg \in {"Ticker not found", "No options available"} : FetchFails(msg)
    \/ pc = "fetch" /\ \E quotes \in Chains, days \in Days : Fetch(quotes, days)
    \/ FilterQuotes
    \/ IVStart
    \/ NewtonStep
    \/ LoopFallThrough
    \/ IVCollect
    \/ pc = "fit" /\ \E result \in Minimize(AtmVar(run.IVs, run.tau)) : FitSVI(result)
    \/ SmoothGrid
    \/ ExtractPDF
    \/ Store
    \/ \E ok \in BOOLEAN : Plot(ok)
    \/ \E ok \in BOOLEAN : Analyze(ok)
Spec == Init /\ [][Next]_vars

\* The pipeline run again and again, each run compared with the one before.
RerunDays == {0, 30}
RerunChains == {q \in Chains : q[1].strike < q[2].strike /\ q[6].volume > 0}
NextRerun ==
    \/ pc = "idle" /\ \E entry \in Entries : Recalculate(entry)
    \/ \E msg \in {"Ticker not found", "No options available"} : FetchFails(msg)
    \/ pc = "fetch" /\ \E quotes \in RerunChains, days \in RerunDays : Fetch(quotes, days)
    \/ FilterQuotes
    \/ IVStart
    \/ NewtonStep
    \/ LoopFallThrough
    \/ IVCollect
    \/ pc = "fit" /\ \E result \in Minimize(AtmVar(run.IVs, run.tau)) : FitSVI(result)
    \/ SmoothGrid
    \/ ExtractPDF
    \/ Store
    \/ \E ok \in BOOLEAN : Plot(ok)
    \/ \E ok \in BOOLEAN : Analyze(ok)
SpecRerun == Init /\ [][NextRerun]_vars

\* Calls of svi_variance with parameters within and beyond the bounds of
\* line 303, at log-moneyness from -2 to 2.
SVIParams ==
    [a : {Fin(0), Fin(Scale \div 25)},
     b : {0, Scale \div 10, 2 * Scale},
     rho : {-((3 * Scale) \div 2), -Scale, -(Scale \div 2), 0, Scale \div 3, Scale,
            (3 * Scale) \div 2},
     m : {-(Scale \div 2), 0, Scale \div 4},
     sigma : {1, Scale \div 10, Scale}]
LogStrikes == {q * (Scale \div 4) : q \in -8..8}
SVICall(k, params) ==
    /\ ~sv.called
    /\ sv' = [called |-> TRUE, k |-> k, params |-> params,
              ret |-> svi_variance(k, params)]
    /\ UNCHANGED <<appVars, iv, bs, px, prev, fs, an, ak>>

\* The caller done with what svi_variance returned.
SVIDone ==
    /\ sv.called
    /\ sv' = SVIdle
    /\ UNCHANGED <<appVars, iv, bs, px, prev, fs, an, ak>>
InitSVI == InitApp /\ FnIdle
NextSVI ==
    \/ ~sv.called /\ \E k \in LogStrikes, params \in SVIParams : SVICall(k, params)
    \/ SVIDone
SpecSVI == InitSVI /\ [][NextSVI]_vars

\* Calls of analyze on results as calculate_pdf stores them: three strikes
\* about the spot, flat smiles at three levels, three maturities; with the
\* AI switch on and off, the SDK there or not, ANTHROPIC_API_KEY unset, empty
\* or set, and an API that answers or fails.
AnalyzeResults ==
    {[ticker |-> <<"S", "P", "Y">>, current_price |-> Spot, tau |-> TauOf(days),
      strikes |-> <<StrikeAt(1), StrikeAt(2), StrikeAt(3)>>,
      IVs |-> <<v + Dec4(100), v, v + Dec4(200)>>] :
         days \in {5, 30, 45}, v \in {Dec4(2000), Dec4(3000), Dec4(5000)}}
EnvKeys == {NoKey, Key(<<>>), Key(<<"e">>)}
ANCall(results, use_ai, sdk, env, api_ok) ==
    /\ ~an.called
    /\ an' = [called |-> TRUE, results |-> results, use_ai |-> use_ai,
              sdk |-> sdk, env |-> env, api_ok |-> api_ok,
              out |-> analyze(results, use_ai, sdk, env, api_ok)]
    /\ UNCHANGED <<appVars, iv, bs, px, sv, prev, fs, ak>>
\* The caller done with the analysis.
ANDone ==
    /\ an.called
    /\ an' = ANIdle
    /\ UNCHANGED <<appVars, iv, bs, px, sv, prev, fs, ak>>
NextAnalyze ==
    \/ ~an.called /\ \E results \in AnalyzeResults, use_ai \in BOOLEAN,
                        sdk \in BOOLEAN, env \in EnvKeys, api_ok \in BOOLEAN :
                        ANCall(results, use_ai, sdk, env, api_ok)
    \/ ANDone
SpecAnalyze == Init /\ [][NextAnalyze]_vars

\* Calls of get_api_key: the variable unset, empty or set (to a key of any
\* form), and each of the two files missing, unreadable, or of up to
\* MaxLines lines.
MaxLines == 2
LinesWith(c) ==
    {<<"#", "N", "=", "P", c>>,
     <<"N", "=", "P", c>>,
     <<" ", "N", " ", "=", " ", "dq", "P", c, "dq", " ">>,
     <<"N", "=", c>>,
     <<"N", " ", "sq", "P", c, "sq">>,
     <<"P", c, "=">>}
TextsOf(lines) == UNION {[1..n -> lines] : n \in 0..MaxLines}
FilesWith(c) ==
    {NoFile, [exists |-> TRUE, readable |-> FALSE, lines |-> <<>>]}
    \cup {[exists |-> TRUE, readable |-> TRUE, lines |-> t] : t \in TextsOf(LinesWith(c))}
AKRecord(env, dotenv, config, out) ==
    [called |-> TRUE, env |-> env, dotenv |-> dotenv, config |-> config,
     ret |-> out.ret, read |-> out.read]
AKCall(env, dotenv, config) ==
    /\ ~ak.called
    /\ ak' = AKRecord(env, dotenv, config, get_api_key(env, dotenv, config))
    /\ UNCHANGED <<appVars, iv, bs, px, sv, prev, fs, an>>
\* The caller done with the key.
AKDone ==
    /\ ak.called
    /\ ak' = AKIdle
    /\ UNCHANGED <<appVars, iv, bs, px, sv, prev, fs, an>>
NextKey ==
    \/ ~ak.called /\ \E env \in EnvKeys,
                        dotenv \in FilesWith("x"), config \in FilesWith("y") :
                        AKCall(env, dotenv, config)
    \/ AKDone
SpecKey == Init /\ [][NextKey]_vars

\* The pipeline together with the direct calls of the extractor.
NextGrid == Next \/ NextPDF
SpecGrid == Init /\ [][NextGrid]_vars

(***************************************************************************)
(* Properties of the solver and the pricer.                                *)
(***************************************************************************)

\* C3: a call of implied_volatility whose market price is at or below
\* max(S - K*exp(-r*T), 0) has returned NaN without one pass of the Newton
\* loop: it is never in the loop and never returns a positive number.
C3_NoArbitrageFloor ==
    (iv.pc # "idle"
       /\ iv.mp <= Max(iv.S - FMul(iv.K, FExp(-FMul(Rate, iv.T))), 0))
    => (iv.pc = "done" /\ IsNaN(iv.ret) /\ iv.passes = 0)

C3_Witness ==
    /\ iv.pc = "done"
    /\ iv.mp > 0
    /\ iv.mp = iv.S - FMul(iv.K, FExp(-FMul(Rate, iv.T)))
    /\ IsNaN(iv.ret)
    /\ iv.passes = 0

\* C4: implied_volatility returns NaN or a strictly positive number, and a
\* pass whose Newton update left sigma at or below zero is the last one and
\* returns NaN.
C4_PositiveOrNaN ==
    /\ iv.pc = "done" => (IsNaN(iv.ret) \/ FlGt(iv.ret, Fin(0)))
    /\ (iv.upd # NoVal /\ FlLe(iv.upd, Fin(0)))
       => (iv.pc = "done" /\ IsNaN(iv.ret))

C4_Witness ==
    /\ iv.pc = "done"
    /\ iv.passes >= 1
    /\ iv.upd # NoVal
    /\ FlLe(iv.upd, Fin(0))
    /\ IsNaN(iv.ret)

\* C10: black_scholes_call returns exactly max(S - K, 0), without reaching
\* the closed form, whenever T <= 0 or sigma <= 0, and it reaches the closed
\* form only with T > 0 and sigma > 0.
C10_DegenerateIsIntrinsic ==
    bs.called =>
        /\ (bs.T <= 0 \/ FlLe(bs.sigma, Fin(0)))
           => (bs.ret = Fin(Max(bs.S - bs.K, 0)) /\ ~bs.closed)
        /\ bs.closed => (bs.T > 0 /\ FlGt(bs.sigma, Fin(0)))

C10_Witness ==
    /\ bs.called
    /\ bs.T > 0
    /\ bs.sigma = Fin(0)
    /\ bs.S > bs.K
    /\ bs.ret = Fin(bs.S - bs.K)
    /\ ~bs.closed

(***************************************************************************)
(* Properties of the density extractor.                                    *)
(***************************************************************************)

\* The spacing of a grid when it is even and positive, 0 otherwise.
EvenSpacing(strikes) ==
    IF /\ Len(strikes) >= 2
       /\ strikes[2] > strikes[1]
       /\ \A j \in 1..(Len(strikes) - 1) :
              strikes[j + 1] - strikes[j] = strikes[2] - strikes[1]
    THEN strikes[2] - strikes[1] ELSE 0

\* C6: every density value that calculate_pdf_from_calls returns is >= 0
\* (a NaN is not), whatever the grid and the call prices.
C6_DensityNonNegative ==
    px.called => \A j \in 1..Len(px.pdf_values) : FlLe(Fin(0), px.pdf_values[j])

\* The same on the grids with a positive spacing.
C6_NonNegativeOnSpacedGrid ==
    (px.called /\ EvenSpacing(px.strikes) > 0)
    => \A j \in 1..Len(px.pdf_values) : FlLe(Fin(0), px.pdf_values[j])

\* A completed run that kept one quote: the grid of line 405 is 200 times
\* its strike, and every stored density value is 0/0.
C6_Witness ==
    /\ pc = "idle"
    /\ status = "Complete"
    /\ last_results.set
    /\ Len(last_results.strikes) = 1
    /\ px.called
    /\ px.strikes[1] = px.strikes[200]
    /\ px.pdf_values = last_results.pdf_values
    /\ \A j \in 1..198 : IsNaN(last_results.pdf_values[j])

\* C8: when the trapezoidal integral of the clamped density is > 0 every
\* returned value is the clamped value divided by it and the integral of the
\* returned values is 1 within 0.001; otherwise the clamped values are
\* returned as they are.
C8_NormalizedOrUnchanged ==
    px.called =>
        /\ px.integral = Trapz(px.clamped, px.pdf_strikes)
        /\ IF FlGt(px.integral, Fin(0))
           THEN /\ px.divided
                /\ \A j \in 1..Len(px.pdf_values) :
                       px.pdf_values[j] = FlDiv(px.clamped[j], px.integral)
                /\ IsFin(px.logged)
                /\ Abs(px.logged.v - Scale) <= Dec4(10)
           ELSE /\ ~px.divided
                /\ px.pdf_values = px.clamped

C8_Witness ==
    /\ px.called
    /\ FlGt(px.integral, Fin(0))
    /\ px.integral # Fin(Scale)
    /\ px.divided
    /\ px.pdf_values # px.clamped
    /\ \E j \in 1..Len(px.clamped) : px.clamped[j] = Fin(0)

\* C9: constant call prices on an evenly spaced grid give a density that is
\* zero at every interior point, and the division of line 330 is skipped.
C9_FlatPricesGiveZero ==
    (/\ px.called
     /\ Len(px.strikes) >= 3
     /\ EvenSpacing(px.strikes) > 0
     /\ \A j \in 1..Len(px.call_prices) : px.call_prices[j] = px.call_prices[1])
    => (/\ \A j \in 1..Len(px.pdf_values) : px.pdf_values[j] = Fin(0)
        /\ Len(px.pdf_values) = Len(px.strikes) - 2
        /\ ~px.divided)

C9_Witness ==
    /\ px.called
    /\ Len(px.strikes) = MaxGrid
    /\ EvenSpacing(px.strikes) > 0
    /\ \A j \in 1..MaxGrid : px.call_prices[j] = Fin(Scale \div 4)
    /\ \A j \in 1..(MaxGrid - 2) : px.pdf_values[j] = Fin(0)
    /\ ~px.divided

(***************************************************************************)
(* Properties of calculate_pdf.                                            *)
(***************************************************************************)

\* C1: a run that has ended has assigned last_results only if it ended
\* Complete: one that ended in the error path (a failure while plotting or
\* analysing included) has not assigned it.
C1_ErrorStoresNothing ==
    (pc = "idle" /\ run.stored) => status = "Complete"

C1_Witness ==
    /\ pc = "idle"
    /\ status = "Error"
    /\ run.error = "plot_results"
    /\ run.stored
    /\ last_results.set
    /\ last_results.ticker = run.ticker

\* C2: once the chain has been filtered, a run with fewer than 5 liquid
\* quotes (volume > 0 and bid > 0) has ended in the error state without a
\* call of implied_volatility, a calibration or an extraction, and without
\* storing a result.
C2_TooFewQuotesStopsEarly ==
    (/\ run.quotes # <<>>
     /\ pc # "filter"
     /\ Cardinality({j \in 1..Len(run.quotes) :
                        run.quotes[j].volume > 0 /\ run.quotes[j].bid > 0}) < 5)
    => (/\ pc = "idle"
        /\ status = "Error"
        /\ run.error = "Insufficient liquid options"
        /\ run.stages = <<"fetch">>
        /\ run.iv_calls = 0
        /\ iv = IVIdle
        /\ ~px.called
        /\ ~run.stored)

C2_Witness ==
    /\ pc = "idle"
    /\ status = "Error"
    /\ run.error = "Insufficient liquid options"
    /\ Len(run.quotes) = 6
    /\ Cardinality({j \in 1..Len(run.quotes) :
                       run.quotes[j].volume > 0 /\ run.quotes[j].bid > 0}) = 4
    /\ run.iv_calls = 0

\* What line 393 keeps, stated on the returned value.
Kept(ret) == ret.k = "fin" /\ ret.v > Dec4(500) /\ ret.v < Dec4(20000)

\* The quotes inverted so far, each with what the solver returned.
Inverted ==
    [j \in 1..Len(run.rets) |-> [strike |-> run.calls[j].strike, ret |-> run.rets[j]]]
KeptPoint(p) == Kept(p.ret)
KeptPoints == SelectSeq(Inverted, KeptPoint)

\* C5: the IV points are exactly the quotes whose solver result is a number
\* strictly between 0.05 and 2.0, in the order of the quotes, strikes and
\* IVs side by side; a dropped quote neither ends the run nor is inverted
\* again: the solver has been called once per quote reached, and past the
\* loop once per liquid quote.
C5_BandFilter ==
    /\ Len(run.strikes) = Len(run.IVs)
    /\ Len(run.strikes) = Len(KeptPoints)
    /\ \A j \in 1..Len(KeptPoints) :
           /\ run.strikes[j] = KeptPoints[j].strike
           /\ run.IVs[j] = KeptPoints[j].ret.v
    /\ pc = "iv" => (/\ Len(run.rets) = run.qi - 1
                     /\ run.iv_calls = Len(run.rets) + (IF iv.pc = "idle" THEN 0 ELSE 1)
                     /\ run.error = "")
    /\ pc \in {"fit", "grid", "extract", "store", "plot", "analyze"}
           => (Len(run.rets) = Len(run.calls) /\ run.iv_calls = Len(run.calls))

C5_Witness ==
    /\ pc = "fit"
    /\ Len(run.calls) = 5
    /\ Len(run.strikes) = 3
    /\ run.iv_calls = 5
    /\ \E j \in 1..5 : IsNaN(run.rets[j])
    /\ \E j \in 1..5 : IsFin(run.rets[j]) /\ run.rets[j].v >= Dec4(20000)

\* C7: from a grid of n >= 3 points calculate_pdf_from_calls returns n - 2
\* strikes and n - 2 values, the strikes being the grid without its first
\* and last point; the grid of calculate_pdf has 200 points from the lowest
\* to the highest retained strike, and a stored result has 198 density
\* points.
C7_InteriorLengths ==
    /\ (px.called /\ Len(px.strikes) >= 3)
       => (/\ Len(px.pdf_strikes) = Len(px.strikes) - 2
           /\ Len(px.pdf_values) = Len(px.strikes) - 2
           /\ \A j \in 1..(Len(px.strikes) - 2) : px.pdf_strikes[j] = px.strikes[j + 1])
    /\ last_results.set
       => (/\ Len(last_results.smooth_strikes) = 200
           /\ \A j \in 1..Len(last_results.strikes) :
                  /\ last_results.smooth_strikes[1] <= last_results.strikes[j]
                  /\ last_results.smooth_strikes[200] >= last_results.strikes[j]
           /\ \E j \in 1..Len(last_results.strikes) :
                  last_results.smooth_strikes[1] = last_results.strikes[j]
           /\ \E j \in 1..Len(last_results.strikes) :
                  last_results.smooth_strikes[200] = last_results.strikes[j]
           /\ Len(last_results.pdf_strikes) = 198
           /\ Len(last_results.pdf_values) = 198
           /\ \A j \in 1..198 :
                  last_results.pdf_strikes[j] = last_results.smooth_strikes[j + 1])

C7_Witness ==
    /\ last_results.set
    /\ Len(last_results.strikes) = 6
    /\ Len(last_results.pdf_values) = 198
    /\ last_results.pdf_strikes[1] > last_results.strikes[1]
    /\ last_results.pdf_strikes[198] < last_results.strikes[6]
    /\ px.called
    /\ Len(px.strikes) = 200

(***************************************************************************)
(* Properties of the stages of calculate_pdf after the inversion.          *)
(***************************************************************************)

\* The run at hand has passed the stage.
Staged(stage) == \E j \in 1..Len(run.stages) : run.stages[j] = stage

\* C11: a run whose inversion loop kept no point is not calibrated: it does
\* not pass fit_svi, stores nothing, and ends in the error state.
C11_NoPointStopsBeforeFit ==
    (Staged("iv") /\ run.strikes = <<>>)
    => (/\ ~Staged("fit")
        /\ ~run.stored
        /\ pc = "idle" => status = "Error")

\* fit_svi has returned for the empty arrays and the run goes on to line 405.
C11_Witness ==
    /\ pc = "grid"
    /\ Staged("fit")
    /\ Len(run.calls) >= 5
    /\ Len(run.rets) = Len(run.calls)
    /\ run.strikes = <<>>
    /\ run.error = ""

\* C12: a run whose inversion loop kept fewer than 5 points ends in the
\* error state without a calibration, an extraction or a stored result.
C12_FewPointsIsFailure ==
    (Staged("iv") /\ Len(run.strikes) < 5)
    => (/\ ~Staged("fit")
        /\ ~Staged("extract")
        /\ ~run.stored
        /\ pc = "idle" => status = "Error")

\* Three points out of five liquid quotes, and the run is Complete.
C12_Witness ==
    /\ pc = "idle"
    /\ status = "Complete"
    /\ Len(run.calls) = 5
    /\ Len(run.strikes) = 3
    /\ Staged("fit")
    /\ Staged("extract")
    /\ run.stored
    /\ last_results.set
    /\ Len(last_results.strikes) = 3

\* C13: a run whose retained strikes have one value (min = max) builds no
\* grid and stores nothing, and ends in the error state.
C13_DegenerateRangeIsFailure ==
    (/\ Staged("iv")
     /\ run.strikes # <<>>
     /\ SeqMin(run.strikes) = SeqMax(run.strikes))
    => (/\ ~Staged("grid")
        /\ ~run.stored
        /\ pc = "idle" => status = "Error")

\* One retained point: a grid of 200 equal strikes, stored, status Complete.
C13_Witness ==
    /\ pc = "idle"
    /\ status = "Complete"
    /\ Len(run.strikes) = 1
    /\ run.stored
    /\ last_results.set
    /\ last_results.strikes = run.strikes
    /\ Len(last_results.smooth_strikes) = GridN
    /\ \A j \in 1..GridN : last_results.smooth_strikes[j] = run.strikes[1]

\* C14: a run whose time to expiry is zero or negative calls the solver
\* not once, passes neither fit_svi nor the extractor, and ends in the
\* error state; no stored result has tau <= 0.
C14_InvalidMaturityIsFailure ==
    /\ (Staged("filter") /\ run.tau <= 0)
       => (/\ run.iv_calls = 0
           /\ ~Staged("fit")
           /\ ~Staged("extract")
           /\ pc = "idle" => status = "Error")
    /\ last_results.set => last_results.tau > 0

\* An expiry of today: tau = 0, the solver was called for every quote, and
\* the result is stored with status Complete.
C14_Witness ==
    /\ pc = "idle"
    /\ status = "Complete"
    /\ run.days = 0
    /\ run.tau = 0
    /\ run.iv_calls = Len(run.calls)
    /\ run.iv_calls >= 5
    /\ Staged("extract")
    /\ run.stored
    /\ last_results.set
    /\ last_results.tau = 0

\* C15: calculate_pdf_from_calls returns a density only from a grid whose
\* spacing is positive and the same between every two neighbours.
C15_BadSpacingIsRejected ==
    px.called => EvenSpacing(px.strikes) > 0

\* A grid of equal strikes, and a density returned for its interior.
C15_Witness ==
    /\ px.called
    /\ Len(px.strikes) = MinGrid
    /\ \A j \in 1..(MinGrid - 1) : px.strikes[j + 1] - px.strikes[j] = 0
    /\ Len(px.pdf_values) = MinGrid - 2
    /\ Len(px.pdf_strikes) = MinGrid - 2
    /\ px.pdf_strikes[1] = px.strikes[1]

\* C19: after a run that ended in the error state and did not reach line
\* 421, last_results holds no result: what the exports and the theme
\* re-plot read is not the result of an earlier run.
C19_NoResultOfEarlierRun ==
    (pc = "idle" /\ status = "Error" /\ ~run.stored) => ~last_results.set

\* A failed download after a completed run.
C19_Witness ==
    /\ pc = "idle"
    /\ status = "Error"
    /\ run.error = "Ticker not found"
    /\ ~run.stored
    /\ run.stages = <<>>
    /\ last_results.set
    /\ Len(last_results.pdf_values) = GridN - 2

\* C20: between two runs the status is Ready (no run yet), Complete with the
\* run's result stored, or Error with the error of the run; it is never
\* left at Calculating.
C20_CompleteOrError ==
    pc = "idle" =>
        \/ status = "Ready" /\ run = RunIdle
        \/ status = "Complete" /\ run.stored /\ last_results.set
        \/ status = "Error" /\ run.error # ""

\* An empty ticker: line 352 returns, the status still Calculating.
C20_Witness ==
    /\ pc = "idle"
    /\ status = "Calculating"
    /\ run.ticker = <<>>
    /\ run.error = ""
    /\ ~run.stored

(***************************************************************************)
(* Properties of fit_svi and svi_variance.                                 *)
(***************************************************************************)

\* C16: the parameters fit_svi has returned satisfy a >= 0, b >= 0,
\* -1 <= rho <= 1 and sigma >= 1e-6, whatever points it was called with, and
\* so do the optimal_params of a stored result.
C16_ParamsWithinBounds ==
    /\ Staged("fit") => InSVIBounds(run.params)
    /\ last_results.set => InSVIBounds(last_results.optimal_params)

\* fit_svi has returned for the empty arrays: a is the median of nothing.
C16_Witness ==
    /\ Staged("fit")
    /\ run.IVs = <<>>
    /\ IsNaN(run.params.a)
    /\ run.params.b = Dec4(1000)
    /\ run.params.sigma = Dec4(1000)

\* C17: with a >= 0, b >= 0, -1 <= rho <= 1 and sigma > 0, svi_variance is
\* >= 0 at every log-moneyness k and every m.
C17_VarianceNonNegative ==
    (sv.called /\ InSVIBounds(sv.params)) => FlLe(Fin(0), sv.ret)

\* The wing with rho = -1, far to the right of m: the variance is down to a.
C17_Witness ==
    /\ sv.called
    /\ InSVIBounds(sv.params)
    /\ sv.params.rho = -Scale
    /\ sv.params.b = 2 * Scale
    /\ sv.params.a = Fin(0)
    /\ sv.params.sigma = 1
    /\ sv.k - sv.params.m >= 2 * Scale
    /\ sv.ret = Fin(0)

(***************************************************************************)
(* Properties of one run after another.                                    *)
(***************************************************************************)

\* How the numerical part of a run ended: with a result (line 421 reached)
\* or with the error caught.
Outcome(r) == IF r.stored THEN "result" ELSE r.error

\* The optimizer's answer was its first iterate.
Stayed(r) == r.params = InitialGuess(ClipA(AtmVar(r.IVs, r.tau)))

\* The run at hand is through its numerical part, and the run before it had
\* the same quotes, spot and days to expiry and the same answer of the
\* optimizer.
SameInputsAsBefore ==
    /\ prev.set
    /\ prev.run.quotes # <<>>
    /\ run.quotes = prev.run.quotes
    /\ run.price = prev.run.price
    /\ run.days = prev.run.days
    /\ run.stored \/ pc = "idle"
    /\ Stayed(run) = Stayed(prev.run)

RoundTol == Dec4(200)
C21_RoundTripRecoversSigma ==
    (iv.pc = "done" /\ bs.called /\ bs.T > 0)
    => (IsFin(iv.ret) /\ Abs(iv.ret.v - bs.sigma.v) <= RoundTol)

\* A price that is at the bound of line 268 although sigma0 is in range:
\* the round trip ends in NaN before the first pass.
C21_Witness ==
    /\ iv.pc = "done"
    /\ bs.called
    /\ bs.T > 0
    /\ bs.sigma = Fin(Dec4(500))
    /\ bs.closed
    /\ iv.mp = bs.ret.v
    /\ iv.passes = 0
    /\ IsNaN(iv.ret)

\* The vega of line 273 at the iterate the last pass worked on.
LastVega == Vega(iv.S, iv.K, iv.T, Rate, iv.sigma)
\* The loop was left by the break of line 275: a pass was made, the range
\* was not used up, and the vega of that pass was below 1e-10.
LeftByBreak ==
    /\ iv.pc = "done"
    /\ iv.passes >= 1
    /\ iv.i < MaxIter
    /\ FlLt(FlAbs(LastVega), Fin(VegaEps))

\* C25: a call of implied_volatility that met |vega| < 1e-10 in a pass of
\* the Newton loop has returned NaN, never the iterate of that pass.
C25_FlatVegaIsInvalid == LeftByBreak => IsNaN(iv.ret)

\* A call with a positive maturity that left the loop by the break and
\* returned its iterate, the starting value 0.3.
C25_Witness ==
    /\ LeftByBreak
    /\ iv.T > 0
    /\ iv.passes = 1
    /\ iv.ret = Fin(Sigma0)
    /\ iv.ret = iv.sigma

\* The price of line 272 at the iterate the last pass worked on, and the
\* test of line 277 on it.
LastPrice == black_scholes_call(iv.S, iv.K, iv.T, Rate, iv.sigma)
PriceMet == FlLt(FlAbs(FlSub(Fin(iv.mp), LastPrice)), Fin(PriceTol))
\* The first iterate is 0.30; no call makes more than 100 passes; a call
\* that used up the range has made 100 and returns its last iterate if it
\* is positive, NaN otherwise.
NewtonBounded ==
    /\ iv.passes <= 100
    /\ iv.i <= iv.passes
    /\ (iv.pc = "loop" /\ iv.passes = 0) => iv.sigma = Fin(Dec4(3000))
    /\ (iv.pc = "done" /\ iv.i = 100)
       => /\ iv.passes = 100
          /\ iv.ret = IF FlGt(iv.sigma, Fin(0)) THEN iv.sigma ELSE NaN
\* A pass that finds the price within 1e-6 (the vega not being flat)
\* returns the iterate it was made on, with no update.
ReturnsOnceMet ==
    (iv.pc = "loop" /\ iv.i < 100 /\ ~FlLt(FlAbs(LastVega), Fin(VegaEps)) /\ PriceMet)
    => (iv'.pc = "done" /\ iv'.ret = iv.sigma /\ iv'.upd = NoVal)

\* C26: implied_volatility always terminates: it starts from 0.30, makes at
\* most 100 passes, returns the iterate of a pass as soon as the price is
\* met within 1e-6 (tested before the update), and after 100 passes without
\* that returns the last iterate if positive and NaN otherwise.
C26_SolverTerminates ==
    /\ []NewtonBounded
    /\ [][ReturnsOnceMet]_vars
    /\ (iv.pc = "loop") ~> (iv.pc = "done")

\* A call that used up the 100 passes, and one that returned on the test of
\* line 277 after more than one pass.
C26_Witness ==
    /\ iv.pc = "done"
    /\ iv.i = MaxIter
    /\ iv.passes = MaxIter
C26_WitnessMet ==
    /\ iv.pc = "done"
    /\ iv.passes > 1
    /\ iv.i < MaxIter
    /\ iv.upd = NoVal
    /\ iv.ret = iv.sigma
    /\ PriceMet

(***************************************************************************)
(* The order of the steps of the extractor, and its stencil.               *)
(***************************************************************************)

\* C27: in calculate_pdf_from_calls the negative values are set to zero
\* before the integral is taken: the integral is that of the clamped values,
\* not of the values of the loop, and what is returned is the clamped
\* values divided by it (or as they are), with no clamping after that.
C27_ClampBeforeIntegral ==
    px.called =>
        /\ Len(px.clamped) = Len(px.raw)
        /\ \A j \in 1..Len(px.raw) :
               px.clamped[j] = IF FlLt(px.raw[j], Fin(0)) THEN Fin(0) ELSE px.raw[j]
        /\ px.integral = Trapz(px.clamped, px.pdf_strikes)
        /\ \A j \in 1..Len(px.raw) :
               px.pdf_values[j] = IF FlGt(px.integral, Fin(0))
                                  THEN FlDiv(px.clamped[j], px.integral)
                                  ELSE px.clamped[j]

\* A call whose loop left a negative and a positive value: the integral of
\* the clamped values is positive and is not that of the values of the
\* loop.
C27_Witness ==
    /\ px.called
    /\ \E j \in 1..Len(px.raw) : FlLt(px.raw[j], Fin(0))
    /\ \E j \in 1..Len(px.raw) : FlGt(px.raw[j], Fin(0))
    /\ FlGt(px.integral, Fin(0))
    /\ px.integral # Trapz(px.raw, px.pdf_strikes)
    /\ px.divided

\* C28: on an evenly spaced grid the value of the loop at the interior
\* strike K[i] is exp(r*tau) * (C[i-1] - 2*C[i] + C[i+1]) / dK^2: it is
\* paired with the strike in the middle of its three prices, and the three
\* prices lie within the grid.
C28_CentredStencil ==
    (px.called /\ Len(px.strikes) >= 3 /\ EvenSpacing(px.strikes) > 0)
    => /\ Len(px.raw) = Len(px.strikes) - 2
       /\ \A i \in 2..(Len(px.strikes) - 1) :
              /\ px.pdf_strikes[i - 1] = px.strikes[i]
              /\ {i - 1, i, i + 1} \subseteq DOMAIN px.call_prices
              /\ px.raw[i - 1] =
                     FlMul(Fin(FExp(FMul(Rate, px.tau))),
                           FlDiv(FlDiv(FlAdd(FlSub(px.call_prices[i - 1],
                                                   FlAdd(px.call_prices[i],
                                                         px.call_prices[i])),
                                             px.call_prices[i + 1]),
                                       Fin(EvenSpacing(px.strikes))),
                                 Fin(EvenSpacing(px.strikes))))

\* A call on the longest grid, evenly spaced, whose prices bend at the
\* second strike only: the value at that strike is not zero, the others
\* are.
C28_Witness ==
    /\ px.called
    /\ Len(px.strikes) = MaxGrid
    /\ EvenSpacing(px.strikes) > 0
    /\ px.tau > 0
    /\ px.call_prices[1] # px.call_prices[2]
    /\ \A j \in 2..MaxGrid : px.call_prices[j] = px.call_prices[2]
    /\ px.raw[1] # Fin(0)
    /\ \A j \in 2..(MaxGrid - 2) : px.raw[j] = Fin(0)

(***************************************************************************)
(* The order of the stages of calculate_pdf.                               *)
(***************************************************************************)

\* The stages of a run in the order of lines 354-438: the inputs (fetch,
\* filter), the inversion, the calibration (fit, grid), the extraction, and
\* the completion (store, plot, analyze).
StageOrder ==
    <<"fetch", "filter", "iv", "fit", "grid", "extract", "store", "plot", "analyze">>
IsPrefix(s, t) == Len(s) <= Len(t) /\ \A j \in 1..Len(s) : s[j] = t[j]

C29_OneFitAnyFlag ==
    /\ fs.opt_calls = IF Staged("fit") THEN 1 ELSE 0
    /\ Staged("fit")
       => /\ fs.x0 = [a |-> AtmVar(run.IVs, run.tau), b |-> Dec4(1000), rho |-> 0,
                      m |-> 0, sigma |-> Dec4(1000)]
          /\ run.params = fs.x
          /\ pc = "grid" => status = "Calculating"
    /\ pc = "extract"
       => run.curve = SmoothCurve(run.strikes, fs.x, run.price, Rate, run.tau)
    /\ run.stored => last_results.optimal_params = fs.x

\* A run that is Complete although minimize reported no convergence: its
\* result.x is stored.
C29_Witness ==
    /\ pc = "idle"
    /\ status = "Complete"
    /\ fs.opt_calls = 1
    /\ ~fs.success
    /\ fs.x # fs.x0
    /\ last_results.set
    /\ last_results.optimal_params = fs.x

\* The lines of the trace that tell the initial guess, the convergence and
\* the optimal parameters.
Diagnostics ==
    SelectSeq(fs.trace, LAMBDA l : l.ev \in {"initial", "converged", "optimal"})

BasicOf(text) == SelectSeq(text, LAMBDA part : part.mark = "chart")

\* C22: a call of analyze returns a text and raises nothing: the rule-based
\* text alone when the AI switch is off or the SDK is missing, and when the
\* AI path failed (no API key, or an error of the API call) the failure
\* message followed by the rule-based text.
C22_AnalyzeNeverRaises ==
    an.called =>
        /\ ~an.out.raised
        /\ an.out.text # <<>>
        /\ (~an.use_ai \/ ~an.sdk)
           => an.out.text = generate_basic_analysis(an.results)
        /\ (an.use_ai /\ an.sdk /\ (~Truthy(an.env) \/ ~an.api_ok))
           => /\ Len(an.out.text) = 2
              /\ an.out.text[1].mark = "cross"
              /\ BasicOf(an.out.text) = generate_basic_analysis(an.results)

\* A call with the AI switch on, the SDK there and no ANTHROPIC_API_KEY in
\* the environment: it ends with a NameError and no text.
C22_Witness ==
    /\ an.called
    /\ an.use_ai
    /\ an.sdk
    /\ an.env = NoKey
    /\ an.out.raised
    /\ an.out.text = <<>>

\* The key a file gives, for the statement of the priority.
FileKey(file) == read_key_from_file(file)

\* C23: get_api_key returns the non-empty ANTHROPIC_API_KEY of the
\* environment; else the key of .env; else the key of config.txt; else
\* None.  It opens a file only when every source before it gave no key, and
\* a key that comes from a file starts with sk-ant-.
C23_KeyPriority ==
    ak.called =>
        /\ IF ak.env.set /\ ak.env.v # <<>>
           THEN ak.ret = ak.env /\ ak.read = <<>>
           ELSE IF FileKey(ak.dotenv).set
           THEN ak.ret = FileKey(ak.dotenv) /\ ak.read = <<".env">>
           ELSE /\ ak.ret = FileKey(ak.config)
                /\ ak.read = <<".env", "config.txt">>
        /\ (ak.read # <<>> /\ ak.ret.set)
           => (ak.ret.v # <<>> /\ Head(ak.ret.v) = "P")

\* A call with the variable set to the empty string and a key in both
\* files: the key of .env is returned and config.txt is not opened.
C23_Witness ==
    /\ ak.called
    /\ ak.env = Key(<<>>)
    /\ FileKey(ak.dotenv).set
    /\ FileKey(ak.config).set
    /\ FileKey(ak.config) # FileKey(ak.dotenv)
    /\ Len(ak.dotenv.lines) = 2
    /\ ~ScanLine(ak.dotenv.lines[1]).set
    /\ ak.ret = FileKey(ak.dotenv)
    /\ ak.read = <<".env">>

====
